---- MODULE Spec2Model ----
(***************************************************************************)
(* SciCal (src/main.py): an authenticated FastAPI service.  POST /token    *)
(* mints a signed bearer token; six calculation endpoints run              *)
(* get_current_user (the auth gate), compute, write a LogEntry through     *)
(* log_operation and answer.                                               *)
(*                                                                         *)
(* Time is counted in minutes.  A float is kept exactly: kind "float"      *)
(* holds twice the value (so halves are exact), the other kinds name the   *)
(* library call whose value is not a multiple of 1/2.                      *)
(***************************************************************************)
EXTENDS Integers, Sequences, FiniteSets, TLC

VARIABLES
    now,        \* the clock (utcnow), in minutes
    loginOut,   \* the last POST /token call: its form fields and its response
    issued,     \* every token POST /token has minted so far (held by clients)
    reqs,       \* the calculation requests: position, inputs, response
    logs,       \* the rows of the logs table, in insertion order
    events      \* the messages sent to the observability sink

vars == <<now, loginOut, issued, reqs, logs, events>>

(* ------------------------------ bounds -------------------------------- *)
NumReq == 2
MaxTime == 30
ClockStep == 10

Reqs == 1..NumReq
GateReqs == {1}

(* --------------------------- configuration ---------------------------- *)
SECRET_KEY == "your-secret-key"
ACCESS_TOKEN_EXPIRE_MINUTES == 30
DefaultExpireMinutes == 15

None == "None"
NoExp == -1

(* ------------------------------- auth --------------------------------- *)
Hash(plain) == <<"bcrypt", plain>>

fake_users_db == [testuser |-> [username |-> "testuser", hashed_password |-> Hash("testpass")]]

verify_password(plain_password, hashed_password) == Hash(plain_password) = hashed_password

get_user(db, username) == IF username \in DOMAIN db THEN username ELSE None

\* Mutant: the password is never verified.
authenticate_user_unverified(username, password) ==
    IF username \notin DOMAIN fake_users_db THEN None ELSE username

authenticate_user(username, password) ==
    IF username \notin DOMAIN fake_users_db
       \/ ~verify_password(password, fake_users_db[username].hashed_password)
    THEN None
    ELSE username

jwt_encode(claims, key) == [kind |-> "jwt", sub |-> claims.sub, exp |-> claims.exp, key |-> key]

create_access_token(data, expires_delta, t) ==
    LET expire == t + (IF expires_delta = None THEN DefaultExpireMinutes ELSE expires_delta)
    IN  jwt_encode([sub |-> data.sub, exp |-> expire], SECRET_KEY)

Missing == [kind |-> "missing", sub |-> None, exp |-> NoExp, key |-> None]
Malformed == [kind |-> "malformed", sub |-> None, exp |-> NoExp, key |-> None]
FarFuture == MaxTime + ACCESS_TOKEN_EXPIRE_MINUTES
BadSignature == jwt_encode([sub |-> "testuser", exp |-> FarFuture], "another-key")
NoSubject == jwt_encode([sub |-> None, exp |-> FarFuture], SECRET_KEY)
UnknownSubject == jwt_encode([sub |-> "ghost", exp |-> FarFuture], SECRET_KEY)
PastExpiry == jwt_encode([sub |-> "testuser", exp |-> 0], SECRET_KEY)

JWTError == [ok |-> FALSE, sub |-> None]

\* Mutant: the exp claim is not checked.
jwt_decode_unexpiring(token, key, t) ==
    IF token.kind # "jwt" THEN JWTError
    ELSE IF token.key # key THEN JWTError
    ELSE [ok |-> TRUE, sub |-> token.sub]

jwt_decode(token, key, t) ==
    IF token.kind # "jwt" THEN JWTError
    ELSE IF token.key # key THEN JWTError
    ELSE IF token.exp # NoExp /\ token.exp < t THEN JWTError
    ELSE [ok |-> TRUE, sub |-> token.sub]

Unauthorized == [status |-> 401, user |-> None]

\* Mutant: only the token of the latest login session is accepted.
get_current_user_session(token, t) ==
    IF token.kind = "missing" \/ token # loginOut.access_token THEN Unauthorized
    ELSE LET payload == jwt_decode(token, SECRET_KEY, t)
         IN  IF ~payload.ok THEN Unauthorized
             ELSE IF payload.sub = None THEN Unauthorized
             ELSE [status |-> 200, user |-> get_user(fake_users_db, payload.sub)]

get_current_user(token, t) ==
    IF token.kind = "missing" THEN Unauthorized
    ELSE LET payload == jwt_decode(token, SECRET_KEY, t)
         IN  IF ~payload.ok THEN Unauthorized
             ELSE IF payload.sub = None THEN Unauthorized
             ELSE [status |-> 200, user |-> get_user(fake_users_db, payload.sub)]

(* ------------------------------ floats -------------------------------- *)
Floats == {-1, 0, 1}

NoVal == [kind |-> "none", v |-> 0]
Float(h) == [kind |-> "float", v |-> h]
Lib(fn, x) == [kind |-> fn, v |-> x]
Raised == [ok |-> FALSE, val |-> NoVal]
Returned(val) == [ok |-> TRUE, val |-> val]

Abs(n) == IF n < 0 THEN -n ELSE n

str(val) ==
    CASE val.kind = "float" /\ val.v % 2 = 0 -> ToString(val.v \div 2) \o ".0"
      [] val.kind = "float" /\ val.v % 2 = 1 ->
            (IF val.v < 0 THEN "-" ELSE "") \o ToString(Abs(val.v) \div 2) \o ".5"
      [] val = Lib("sin", 1) -> "0.8414709848078965"
      [] val = Lib("sin", -1) -> "-0.8414709848078965"
      [] val = Lib("tan", 1) -> "1.5574077246549023"
      [] val = Lib("tan", -1) -> "-1.5574077246549023"
      [] val = Lib("complex", -1) -> "(0.5000000000000001+0.8660254037844386j)"
      [] OTHER -> val.kind \o "(" \o ToString(val.v) \o ")"

math_sqrt(x) ==
    IF x < 0 THEN Raised
    ELSE IF \E n \in 0..x : n * n = x
         THEN Returned(Float(2 * (CHOOSE n \in 0..x : n * n = x)))
         ELSE Returned(Lib("sqrt", x))

pow_third(x) ==
    IF x < 0 THEN Returned(Lib("complex", x))
    ELSE IF x \in {0, 1} THEN Returned(Float(2 * x))
    ELSE Returned(Lib("pow", x))

math_log10(x) ==
    IF x <= 0 THEN Raised
    ELSE IF x = 1 THEN Returned(Float(0))
    ELSE Returned(Lib("log10", x))

math_sin(x) == IF x = 0 THEN Returned(Float(0)) ELSE Returned(Lib("sin", x))

math_tan(x) == IF x = 0 THEN Returned(Float(0)) ELSE Returned(Lib("tan", x))

integrate(a, b) == Returned(Float(b * b - a * a))

(* ----------------------------- endpoints ------------------------------ *)
Endpoints == {"sqrt", "cbrt", "log", "sin", "tan", "integrate"}

\* Mutant: the operation name of /sqrt pasted into /cbrt.
Operation_pasted(ep) ==
    CASE ep = "sqrt" -> "SQRT"
      [] ep = "cbrt" -> "SQRT"
      [] ep = "log" -> "LOG"
      [] ep = "sin" -> "SIN"
      [] ep = "tan" -> "TAN"
      [] ep = "integrate" -> "INTEGRATION"

Operation(ep) ==
    CASE ep = "sqrt" -> "SQRT"
      [] ep = "cbrt" -> "CBRT"
      [] ep = "log" -> "LOG"
      [] ep = "sin" -> "SIN"
      [] ep = "tan" -> "TAN"
      [] ep = "integrate" -> "INTEGRATION"

ResponseKey(ep) ==
    CASE ep = "sqrt" -> "sqrt"
      [] ep = "cbrt" -> "cbrt"
      [] ep = "log" -> "log10"
      [] ep = "sin" -> "sin"
      [] ep = "tan" -> "tan"
      [] ep = "integrate" -> "integration"

Calc(ep, a, b) ==
    CASE ep = "sqrt" -> math_sqrt(a)
      [] ep = "cbrt" -> pow_third(a)
      [] ep = "log" -> math_log10(a)
      [] ep = "sin" -> math_sin(a)
      [] ep = "tan" -> math_tan(a)
      [] ep = "integrate" -> integrate(a, b)

Args(ep) == IF ep = "integrate" THEN Floats \X Floats ELSE Floats \X {0}

jsonable(val) == val.kind # "complex"

(* ------------------------------- state -------------------------------- *)
NoLogin == [username |-> None, password |-> None, at |-> 0, status |-> 0,
            detail |-> None, access_token |-> Missing, token_type |-> None]

Idle == [pc |-> "idle", ep |-> None, token |-> Missing, a |-> 0, b |-> 0, at |-> 0,
         user |-> None, result |-> NoVal, commit |-> None,
         status |-> 0, key |-> None, value |-> NoVal]

(* A row an earlier run of the service left in the logs table. *)
Stored == [id |-> 1, operation |-> "SQRT", result |-> "4.0", timestamp |-> 0, rid |-> 0]

Init ==
    /\ now = 0
    /\ loginOut = NoLogin
    /\ issued = {}
    /\ reqs = [r \in Reqs |-> Idle]
    /\ logs \in {<<>>, <<Stored>>}
    /\ events = {}

(* ------------------------------ actions ------------------------------- *)
Tick ==
    /\ now + ClockStep <= MaxTime
    /\ now' = now + ClockStep
    /\ UNCHANGED <<loginOut, issued, reqs, logs, events>>

LoginResponse(username, password, t) ==
    LET user == authenticate_user(username, password)
    IN  IF user = None
        THEN [username |-> username, password |-> password, at |-> t, status |-> 400,
              detail |-> "Incorrect username or password",
              access_token |-> Missing, token_type |-> None]
        ELSE [username |-> username, password |-> password, at |-> t, status |-> 200,
              detail |-> None,
              access_token |-> create_access_token([sub |-> user], None, t),
              token_type |-> "bearer"]

login(username, password) ==
    /\ loginOut' = LoginResponse(username, password, now)
    /\ issued' = IF loginOut'.status = 200
                 THEN issued \cup {loginOut'.access_token}
                 ELSE issued
    /\ UNCHANGED <<now, reqs, logs, events>>

Finish(r, status, value) ==
    [reqs[r] EXCEPT !.pc = "done", !.status = status, !.value = value,
                    !.key = IF status = 200 THEN ResponseKey(reqs[r].ep) ELSE None]

Receive(r, ep, token, a, b) ==
    /\ reqs[r].pc = "idle"
    /\ LET auth == get_current_user(token, now)
           req == [reqs[r] EXCEPT !.ep = ep, !.token = token, !.a = a, !.b = b,
                                  !.at = now, !.user = auth.user]
       IN  reqs' = [reqs EXCEPT ![r] =
                      IF auth.status = 401
                      THEN [req EXCEPT !.pc = "done", !.status = 401]
                      ELSE [req EXCEPT !.pc = "compute"]]
    /\ UNCHANGED <<now, loginOut, issued, logs, events>>

\* Mutant: the handler answers without waiting for log_operation.
Compute_unlogged(r) ==
    /\ reqs[r].pc = "compute"
    /\ LET out == Calc(reqs[r].ep, reqs[r].a, reqs[r].b)
       IN  reqs' = [reqs EXCEPT ![r] =
                      IF out.ok
                      THEN [reqs[r] EXCEPT !.pc = "respond", !.result = out.val]
                      ELSE Finish(r, 500, NoVal)]
    /\ UNCHANGED <<now, loginOut, issued, logs, events>>

Compute(r) ==
    /\ reqs[r].pc = "compute"
    /\ LET out == Calc(reqs[r].ep, reqs[r].a, reqs[r].b)
       IN  reqs' = [reqs EXCEPT ![r] =
                      IF out.ok
                      THEN [reqs[r] EXCEPT !.pc = "persist", !.result = out.val]
                      ELSE Finish(r, 500, NoVal)]
    /\ UNCHANGED <<now, loginOut, issued, logs, events>>

\* Mutant: one LogEntry object shared by all requests keeps the first row's values.
LogEntry_shared(operation, result, r) ==
    [id |-> Len(logs) + 1,
     operation |-> IF logs = <<>> THEN operation ELSE logs[1].operation,
     result |-> IF logs = <<>> THEN result ELSE logs[1].result,
     timestamp |-> now, rid |-> r]

LogEntry(operation, result, r) ==
    [id |-> Len(logs) + 1, operation |-> operation, result |-> result,
     timestamp |-> now, rid |-> r]

\* Mutant: a failed commit is caught and the handler carries on.
Persist_swallowed(r, committed) ==
    /\ reqs[r].pc = "persist"
    /\ IF committed
       THEN /\ logs' = Append(logs, LogEntry(Operation(reqs[r].ep), str(reqs[r].result), r))
            /\ reqs' = [reqs EXCEPT ![r].pc = "emit", ![r].commit = "committed"]
       ELSE /\ logs' = logs
            /\ reqs' = [reqs EXCEPT ![r].pc = "emit", ![r].commit = "failed"]
    /\ UNCHANGED <<now, loginOut, issued, events>>

Persist(r, committed) ==
    /\ reqs[r].pc = "persist"
    /\ IF committed
       THEN /\ logs' = Append(logs, LogEntry(Operation(reqs[r].ep), str(reqs[r].result), r))
            /\ reqs' = [reqs EXCEPT ![r].pc = "emit", ![r].commit = "committed"]
       ELSE /\ logs' = logs
            /\ reqs' = [reqs EXCEPT ![r] = [Finish(r, 500, NoVal) EXCEPT !.commit = "failed"]]
    /\ UNCHANGED <<now, loginOut, issued, events>>

Emit(r) ==
    /\ reqs[r].pc = "emit"
    /\ events' = events \cup
          {[message |-> Operation(reqs[r].ep) \o ": " \o str(reqs[r].result), rid |-> r]}
    /\ reqs' = [reqs EXCEPT ![r].pc = "respond"]
    /\ UNCHANGED <<now, loginOut, issued, logs>>

Respond(r) ==
    /\ reqs[r].pc = "respond"
    /\ reqs' = [reqs EXCEPT ![r] =
                  IF jsonable(reqs[r].result)
                  THEN Finish(r, 200, reqs[r].result)
                  ELSE Finish(r, 500, NoVal)]
    /\ UNCHANGED <<now, loginOut, issued, logs, events>>

(* --------------------------- specifications --------------------------- *)
Usernames == {"testuser", "ghost"}
Passwords == {"testpass", "wrong"}

Forged == {Missing, Malformed, BadSignature, NoSubject, UnknownSubject, PastExpiry}

(* One request through the gate and its handler, over every token,        *)
(* endpoint, argument and clock value.                                     *)
Next ==
    \/ Tick
    \/ \E u \in Usernames, p \in Passwords : login(u, p)
    \/ \E r \in GateReqs, ep \in Endpoints, token \in Forged \cup issued :
          \E ab \in Args(ep) : Receive(r, ep, token, ab[1], ab[2])
    \/ \E r \in Reqs : Compute(r)
    \/ \E r \in Reqs, committed \in BOOLEAN : Persist(r, committed)
    \/ \E r \in Reqs : Emit(r)
    \/ \E r \in Reqs : Respond(r)

Spec == Init /\ [][Next]_vars

(* NumReq requests of a logged-in client handled concurrently, their      *)
(* steps interleaved in every order.                                       *)
ConcArgs(ep) ==
    CASE ep \in {"sqrt", "cbrt"} -> {<<-1, 0>>, <<1, 0>>}
      [] ep = "integrate" -> {<<0, 1>>}
      [] OTHER -> {<<1, 0>>}

NextConc ==
    \/ login("testuser", "testpass")
    \/ \E r \in Reqs, ep \in Endpoints, token \in issued \cup {Missing} :
          \E ab \in ConcArgs(ep) : Receive(r, ep, token, ab[1], ab[2])
    \/ \E r \in Reqs : Compute(r)
    \/ \E r \in Reqs, committed \in BOOLEAN : Persist(r, committed)
    \/ \E r \in Reqs : Emit(r)
    \/ \E r \in Reqs : Respond(r)

SpecConc == Init /\ [][NextConc]_vars

(* ============================== claims ================================ *)
Entries(r) == {i \in 1..Len(logs) : logs[i].rid = r}
EventsOf(r) == {e \in events : e.rid = r}
Arrived(r) == reqs[r].pc # "idle"
Known(username) == username \in DOMAIN fake_users_db

(* The validation failures C1 lists: missing, malformed, bad signature,   *)
(* expired, no subject claim.                                             *)
FailsValidation(token, t) ==
    \/ token.kind \in {"missing", "malformed"}
    \/ token.key # SECRET_KEY
    \/ (token.exp # NoExp /\ token.exp < t)
    \/ token.sub = None

(* C1: on every calculation endpoint a request whose bearer token fails    *)
(* validation ends with 401, computes nothing, and leaves the log store    *)
(* (and the observability sink) exactly as it found them.                  *)
C1_Rejected ==
    \A r \in Reqs :
        (Arrived(r) /\ FailsValidation(reqs[r].token, reqs[r].at)) =>
            /\ reqs[r].pc = "done"
            /\ reqs[r].status = 401
            /\ reqs[r].result = NoVal
            /\ reqs[r].value = NoVal
            /\ Entries(r) = {}
            /\ EventsOf(r) = {}

C1_NoWrite ==
    \A r \in Reqs :
        (~Arrived(r) /\ reqs'[r].pc # "idle"
            /\ FailsValidation(reqs'[r].token, reqs'[r].at)) =>
            (logs' = logs /\ events' = events)

C1_AuthFailureShortCircuits == [](C1_Rejected) /\ [][C1_NoWrite]_vars

C1_Witness ==
    \E r \in Reqs :
        /\ reqs[r].status = 401
        /\ reqs[r].token \in issued
        /\ reqs[r].token.exp < reqs[r].at
        /\ reqs[r].ep = "integrate"
        /\ Len(logs) = 1

(* C2: a calculation request answered with a successful result has added   *)
(* exactly one LogEntry, named after its endpoint's operation and holding  *)
(* the string rendering of the value in the response; rows are only ever   *)
(* added one at a time, by a request at its audit write.                   *)
ExpectedOperation ==
    [sqrt |-> "SQRT", cbrt |-> "CBRT", log |-> "LOG", sin |-> "SIN", tan |-> "TAN",
     integrate |-> "INTEGRATION"]

C2_OneEntry ==
    \A r \in Reqs :
        reqs[r].status = 200 =>
            /\ Cardinality(Entries(r)) = 1
            /\ \A i \in Entries(r) :
                  /\ logs[i].operation = ExpectedOperation[reqs[r].ep]
                  /\ logs[i].result = str(reqs[r].value)

C2_NoOtherEntry ==
    logs' # logs =>
        \E r \in Reqs :
            /\ reqs[r].pc = "persist"
            /\ Entries(r) = {}
            /\ Len(logs') = Len(logs) + 1
            /\ SubSeq(logs', 1, Len(logs)) = logs
            /\ logs'[Len(logs')].rid = r

C2_SuccessLogsExactlyOnce == [](C2_OneEntry) /\ [][C2_NoOtherEntry]_vars

C2_Witness ==
    \E r \in Reqs :
        /\ reqs[r].status = 200
        /\ reqs[r].ep = "integrate"
        /\ reqs[r].value = Float(1)
        /\ \E i \in Entries(r) : logs[i].result = "0.5" /\ i > 1

(* C3: a token minted by a successful POST /token has subject = username   *)
(* and expiry = issuance time + ACCESS_TOKEN_EXPIRE_MINUTES (30).          *)
C3_ExpiryIsConfiguredWindow ==
    loginOut.status = 200 =>
        /\ loginOut.access_token.sub = loginOut.username
        /\ loginOut.access_token.exp = loginOut.at + ACCESS_TOKEN_EXPIRE_MINUTES

(* C4: a token issued by POST /token is accepted by every calculation      *)
(* endpoint at every time before its expiry and rejected with 401 at every *)
(* time after it, whatever POST /token has answered since.                 *)
C4_AcceptedUntilExpiry ==
    \A r \in Reqs :
        (Arrived(r) /\ reqs[r].token \in issued) =>
            /\ reqs[r].at < reqs[r].token.exp =>
                  (reqs[r].status # 401 /\ reqs[r].user = reqs[r].token.sub)
            /\ reqs[r].at > reqs[r].token.exp => reqs[r].status = 401

C4_Witness ==
    \E r \in Reqs :
        /\ reqs[r].token \in issued
        /\ reqs[r].at < reqs[r].token.exp
        /\ reqs[r].status = 200
        /\ loginOut.status = 400
        /\ loginOut.at < reqs[r].at

(* C5: every LogEntry the service writes comes from a request that was     *)
(* authenticated as a known user and completed its computation.            *)
C5_EntriesFromKnownUsers ==
    \A i \in 1..Len(logs) :
        logs[i].rid \in Reqs =>
            /\ Known(reqs[logs[i].rid].user)
            /\ reqs[logs[i].rid].result # NoVal

(* C6: POST /token with an unknown username and with a known username and  *)
(* a wrong password get the same answer (400, same message, no token), and *)
(* neither mints a token.                                                  *)
BadCredentials(l) ==
    l.status # 0 /\ (~Known(l.username) \/ l.password # "testpass")

C6_SameAnswer ==
    BadCredentials(loginOut) =>
        /\ loginOut.status = 400
        /\ loginOut.detail = "Incorrect username or password"
        /\ loginOut.access_token = Missing
        /\ loginOut.token_type = None

C6_NoToken ==
    (loginOut' # loginOut /\ BadCredentials(loginOut')) => issued' = issued

C6_LoginFailureUniform == [](C6_SameAnswer) /\ [][C6_NoToken]_vars

C6_Witness ==
    /\ BadCredentials(loginOut)
    /\ Known(loginOut.username)
    /\ issued # {}
    /\ loginOut.at > 0

(* C7: an authenticated request with a mathematically invalid input        *)
(* (sqrt of x < 0, log of x <= 0) is answered with a client error (4xx)    *)
(* and writes no LogEntry.                                                 *)
DomainError(r) ==
    \/ reqs[r].ep = "sqrt" /\ reqs[r].a < 0
    \/ reqs[r].ep = "log" /\ reqs[r].a <= 0

C7_DomainErrorIsClientError ==
    \A r \in Reqs :
        (reqs[r].pc = "done" /\ reqs[r].status # 401 /\ DomainError(r)) =>
            /\ reqs[r].status \in 400..499
            /\ Entries(r) = {}

(* C8: when the audit write fails the request answers 500, returns no      *)
(* result, and neither a LogEntry nor an observability event exists for it.*)
C8_PersistFailurePropagates ==
    \A r \in Reqs :
        reqs[r].commit = "failed" =>
            /\ reqs[r].pc = "done"
            /\ reqs[r].status = 500
            /\ reqs[r].value = NoVal
            /\ reqs[r].key = None
            /\ Entries(r) = {}
            /\ EventsOf(r) = {}

C8_Witness ==
    \E r, q \in Reqs :
        /\ reqs[r].commit = "failed"
        /\ reqs[r].result = Float(2)
        /\ reqs[q].commit = "committed"

(* C9: within one request the steps run in the order authenticate,         *)
(* compute, persist, emit, respond: a row exists only once the result is   *)
(* computed, an event only once the row is committed, and a successful     *)
(* response only once both exist.                                          *)
Successor ==
    [idle |-> {"compute", "done"}, compute |-> {"persist", "done"},
     persist |-> {"emit", "done"}, emit |-> {"respond"}, respond |-> {"done"},
     done |-> {}]

C9_Ordered ==
    \A r \in Reqs :
        /\ reqs[r].result # NoVal =>
              (reqs[r].status # 401 /\ reqs[r].pc \in {"persist", "emit", "respond", "done"})
        /\ Entries(r) # {} =>
              (reqs[r].result # NoVal /\ reqs[r].pc \in {"emit", "respond", "done"})
        /\ EventsOf(r) # {} =>
              (Entries(r) # {} /\ reqs[r].pc \in {"respond", "done"})
        /\ reqs[r].status = 200 => (Entries(r) # {} /\ EventsOf(r) # {})
        /\ reqs[r].pc # "done" => reqs[r].status = 0

C9_Steps ==
    \A r \in Reqs :
        reqs'[r].pc # reqs[r].pc => reqs'[r].pc \in Successor[reqs[r].pc]

C9_AuditBeforeResponse == [](C9_Ordered) /\ [][C9_Steps]_vars

C9_Witness ==
    \E r \in Reqs :
        /\ reqs[r].pc = "emit"
        /\ Entries(r) # {}
        /\ EventsOf(r) = {}
        /\ reqs[r].ep = "tan"

(* C10: under every interleaving the log store is append-only and its rows *)
(* map 1:1 to the requests that completed their audit write: as many rows  *)
(* as such requests, one row each, each holding its own request's          *)
(* operation and result, and no row is ever changed or removed.            *)
Written == {i \in 1..Len(logs) : logs[i].rid \in Reqs}

C10_OneToOne ==
    /\ Cardinality(Written) = Cardinality({r \in Reqs : reqs[r].commit = "committed"})
    /\ \A r \in Reqs : Cardinality(Entries(r)) = IF reqs[r].commit = "committed" THEN 1 ELSE 0
    /\ \A i \in Written :
          /\ logs[i].operation = ExpectedOperation[reqs[logs[i].rid].ep]
          /\ logs[i].result = str(reqs[logs[i].rid].result)
    /\ \A i \in 1..Len(logs) : logs[i].id = i

C10_AppendOnly ==
    /\ Len(logs') >= Len(logs)
    /\ SubSeq(logs', 1, Len(logs)) = logs

C10_LogAppendOnlyOneToOne == [](C10_OneToOne) /\ [][C10_AppendOnly]_vars

C10_Witness ==
    /\ Len(logs) >= 3
    /\ reqs[1].commit = "committed"
    /\ reqs[2].commit = "committed"
    /\ reqs[1].pc = "emit"
    /\ reqs[2].pc = "emit"
    /\ \E i \in Entries(1), j \in Entries(2) : j < i /\ logs[i].operation # logs[j].operation

====
